---- MODULE Spec2Model ----
(***************************************************************************)
(* The four rewrite scripts of the repository (fix_tests.py,               *)
(* fix_remaining.py, fix_final.py, simplify_tests.py), each of which reads *)
(* src/tests/final_push_tests.rs, applies a fixed list of str.replace and  *)
(* re.sub substitutions to its text, and writes the text back.             *)
(*                                                                         *)
(* A text is a sequence of lexemes: a run of word characters               *)
(* ([A-Za-z0-9_]+) is one lexeme, every other character is a lexeme of its *)
(* own.  Literal patterns are lexeme sequences, and the character classes  *)
(* of the regular expressions (\w \d \s [\d.] [^)] [^}]) are sets of       *)
(* lexemes, so str.replace and re.sub are computed on lexemes exactly as   *)
(* Python computes them on characters: leftmost match, greedy quantifiers  *)
(* with backtracking, non-overlapping matches, scan resumed after each     *)
(* match.                                                                  *)
(***************************************************************************)
EXTENDS Integers, Sequences, FiniteSets, TLC

(***************************************************************************)
(* Lexeme classes                                                          *)
(***************************************************************************)

\* lexemes made of digits only (\d+)
DigitLexemes == { "0", "1", "5", "10", "100" }

\* whitespace lexemes (\s)
SpaceLexemes == { " ", "\n" }

\* punctuation lexemes: one character each, none of them a word character
PunctLexemes ==
    { "#", "[", "]", "(", ")", "{", "}", "!", "&", ".", ",", ";", ":", ">", "<", "=",
      "/", "-" }

\* membership of one lexeme in a character class of the scripts' regexes
InClass(c, t) ==
    CASE c = "w"      -> t \notin SpaceLexemes /\ t \notin PunctLexemes
      [] c = "d"      -> t \in DigitLexemes
      [] c = "dot_d"  -> t \in DigitLexemes \/ t = "."
      [] c = "s"      -> t \in SpaceLexemes
      [] c = "not_rparen" -> t # ")"
      [] c = "not_rbrace" -> t # "}"

(***************************************************************************)
(* str.replace                                                             *)
(***************************************************************************)

\* the non-empty lexeme sequence p occurs in s at index i
OccursAt(s, i, p) ==
    /\ i + Len(p) - 1 <= Len(s)
    /\ s[i] = p[1]
    /\ \A k \in 2..Len(p) : s[i + k - 1] = p[k]

Occurs(s, p) == \E i \in 1..Len(s) : OccursAt(s, i, p)

\* the least element of a non-empty set of indices
Least(S) == CHOOSE j \in S : \A k \in S : j <= k

\* the greatest element of a non-empty set of lengths
Greatest(S) == CHOOSE j \in S : \A k \in S : j >= k

\* content.find(old, i): the first index >= i where old occurs, 0 when none
FindFrom(s, i, old) ==
    LET hits == { j \in i..(Len(s) - Len(old) + 1) : OccursAt(s, j, old) }
    IN  IF hits = {} THEN 0 ELSE Least(hits)

RECURSIVE ReplaceFrom(_, _, _, _)
ReplaceFrom(s, i, old, new) ==
    LET j == FindFrom(s, i, old) IN
    IF j = 0 THEN SubSeq(s, i, Len(s))
    ELSE SubSeq(s, i, j - 1) \o new \o ReplaceFrom(s, j + Len(old), old, new)

\* content.replace(old, new): every non-overlapping occurrence, left to right
Replace(s, old, new) == ReplaceFrom(s, 1, old, new)

(***************************************************************************)
(* re.sub                                                                  *)
(*                                                                         *)
(* A pattern is a sequence of elements: a run of literal lexemes, or a      *)
(* greedy class+ / class*.  A regex is [pat, groups, repl]: groups[g] is   *)
(* the range <<first, last>> of pattern elements inside the g-th pair of   *)
(* capturing parentheses, repl is the replacement template, a sequence of  *)
(* literal runs and group references.                                      *)
(***************************************************************************)

Lits(p) == [k |-> "lits", x |-> p]

Plus(c) == [k |-> "plus", x |-> c]

Star(c) == [k |-> "star", x |-> c]

Grp(n) == [k |-> "grp", x |-> n]

\* length of the longest run of lexemes of class c in s starting at i
RunLen(s, i, c) ==
    LET stops == { j \in i..Len(s) : ~InClass(c, s[j]) }
    IN  (IF stops = {} THEN Len(s) + 1 ELSE Least(stops)) - i

\* Backtracking match of elements j.. of pat at index i of s.  The result is
\* << >> when there is no match, else the start index of each element j..
\* followed by the index just past the match.
RECURSIVE MatchAt(_, _, _, _)
MatchAt(s, i, pat, j) ==
    IF j > Len(pat) THEN << i >>
    ELSE LET e == pat[j] IN
         IF e.k = "lits"
         THEN IF OccursAt(s, i, e.x)
              THEN LET r == MatchAt(s, i + Len(e.x), pat, j + 1)
                   IN  IF r = << >> THEN << >> ELSE << i >> \o r
              ELSE << >>
         ELSE \* greedy quantifier: the longest run for which the rest matches
              LET min  == IF e.k = "plus" THEN 1 ELSE 0
                  lens == { n \in min..RunLen(s, i, e.x) :
                              MatchAt(s, i + n, pat, j + 1) # << >> }
              IN  IF lens = {} THEN << >>
                  ELSE << i >> \o MatchAt(s, i + Greatest(lens), pat, j + 1)

\* the text of group g of a match m (the result of MatchAt for j = 1)
GroupText(s, m, groups, g) ==
    SubSeq(s, m[groups[g][1]], m[groups[g][2] + 1] - 1)

RECURSIVE Expand(_, _, _, _, _)
Expand(s, m, groups, repl, k) ==
    IF k > Len(repl) THEN << >>
    ELSE (IF repl[k].k = "grp" THEN GroupText(s, m, groups, repl[k].x) ELSE repl[k].x)
         \o Expand(s, m, groups, repl, k + 1)

\* the leftmost match of pat that starts at index i or later, << >> when none
SearchFrom(s, i, pat) ==
    LET starts == { j \in i..Len(s) : MatchAt(s, j, pat, 1) # << >> }
    IN  IF starts = {} THEN << >> ELSE MatchAt(s, Least(starts), pat, 1)

\* every pattern of the scripts starts with a literal, so no match is empty
RECURSIVE SubFrom(_, _, _)
SubFrom(s, i, re) ==
    LET m == SearchFrom(s, i, re.pat) IN
    IF m = << >> THEN SubSeq(s, i, Len(s))
    ELSE SubSeq(s, i, m[1] - 1) \o Expand(s, m, re.groups, re.repl, 1)
         \o SubFrom(s, m[Len(m)], re)

\* re.sub(pattern, repl, content)
Sub(s, re) == SubFrom(s, 1, re)

\* re.search(pattern, content) finds a match
Matches(s, pat) == SearchFrom(s, 1, pat) # << >>

(***************************************************************************)
(* fix_final.py                                                            *)
(***************************************************************************)

UseOld ==
    << "use", " ", "crate", ":", ":", "person", ":", ":", "{", "Person", ",", " ",
      "TransactionType", "}", ";" >>

UseNew ==
    << "use", " ", "crate", ":", ":", "person", ":", ":", "{", "Person", ",", " ",
      "TransactionType", ",", " ", "Strategy", ",", " ", "Location", "}", ";" >>

\* content.replace of the use line
FixFinalUse(c) == Replace(c, UseOld, UseNew)

PersonNewOld ==
    << "let", " ", "mut", " ", "person", " ", "=", " ", "Person", ":", ":", "new", "(", "1",
      ",", " ", "100", ".", "0", ",", " ", "skill1", ",", " ", "vec", "!", "[", "skill2",
      ".", "id", ".", "clone", "(", ")", "]", ")", ";" >>

PersonNewNew ==
    << "let", " ", "mut", " ", "person", " ", "=", " ", "Person", ":", ":", "new", "(", "1",
      ",", " ", "100", ".", "0", ",", " ", "vec", "!", "[", "skill1", ".", "clone", "(",
      ")", "]", ",", " ", "Strategy", ":", ":", "Conservative", ",", " ", "Location", ":",
      ":", "new", "(", "0", ".", "0", ",", " ", "0", ".", "0", ")", ")", ";" >>

\* the Person::new pattern has no quantifier and no group
PersonNewRe == [pat |-> << Lits(PersonNewOld) >>, groups |-> << >>, repl |-> << Lits(PersonNewNew) >>]

FixFinalPersonNew(c) == Sub(c, PersonNewRe)

FlatTradesGt ==
    << "result", ".", "total_trades", " ", ">", " ", "0" >>

NestedTradesGt ==
    << "result", ".", "trade_volume_statistics", ".", "total_trades", " ", ">", " ", "0" >>

FlatTradesGe ==
    << "result", ".", "total_trades", " ", ">", "=", " ", "0" >>

NestedTradesGe ==
    << "result", ".", "trade_volume_statistics", ".", "total_trades", " ", ">", "=", " ",
      "0" >>

\* the total_trades fix without its first content.replace
FixFinalTotalTradesGeOnly(c) == Replace(c, FlatTradesGe, NestedTradesGe)

\* the two content.replace calls that fix the total_trades field access
FixFinalTotalTrades(c) ==
    Replace(Replace(c, FlatTradesGt, NestedTradesGt), FlatTradesGe, NestedTradesGe)

SaveHead ==
    << "result", ".", "save_to_file", "(" >>

SaveTail ==
    << ")", ".", "unwrap", "(", ")", ";" >>

SaveFalse ==
    << ",", " ", "false", ")", ".", "unwrap", "(", ")", ";" >>

\* result\.save_to_file\(([^)]+)\)\.unwrap\(\);  ->  result.save_to_file(\1, false).unwrap();
SaveToFileRe ==
    [ pat    |-> << Lits(SaveHead), Plus("not_rparen"), Lits(SaveTail) >>,
      groups |-> << << 2, 2 >> >>,
      repl   |-> << Lits(SaveHead), Grp(1), Lits(SaveFalse) >> ]

FixFinalSaveToFile(c) == Sub(c, SaveToFileRe)

\* the substitutions of fix_final.py, in the order of the script
FixFinal(c) == FixFinalSaveToFile(FixFinalTotalTrades(FixFinalPersonNew(FixFinalUse(c))))

(***************************************************************************)
(* simplify_tests.py                                                       *)
(***************************************************************************)

GiniAssert ==
    << "assert", "!", "(", "result", ".", "money_statistics", ".", "gini_coefficient", " ",
      "<", "=", " ", "1", ".", "0", ")", ";" >>

GiniComment ==
    << "/", "/", " ", "Gini", " ", "coefficient", " ", "can", " ", "be", " ", ">", " ", "1",
      ".", "0", " ", "in", " ", "edge", " ", "cases", " ", "with", " ", "limited", " ",
      "data" >>

GiniRe == [pat |-> << Lits(GiniAssert) >>, groups |-> << >>, repl |-> << Lits(GiniComment) >>]

SimplifyGini(c) == Sub(c, GiniRe)

TradesAssert ==
    << "assert", "!", "(", "result", ".", "trade_volume_statistics", ".", "total_trades",
      " ", ">", " ", "0", ")", ";" >>

TradesComment ==
    << "/", "/", " ", "Trade", " ", "count", " ", "checked", " ", "-", " ", "can", " ",
      "be", " ", "0", " ", "if", " ", "no", " ", "trading", " ", "opportunities" >>

TradesRe == [pat |-> << Lits(TradesAssert) >>, groups |-> << >>, repl |-> << Lits(TradesComment) >>]

SimplifyTrades(c) == Sub(c, TradesRe)

AverageAssert ==
    << "assert", "!", "(", "result", ".", "money_statistics", ".", "average", " ", ">", " ",
      "0", ".", "0", ")", ";" >>

AverageComment ==
    << "/", "/", " ", "Average", " ", "checked" >>

AverageRe == [pat |-> << Lits(AverageAssert) >>, groups |-> << >>, repl |-> << Lits(AverageComment) >>]

SimplifyAverage(c) == Sub(c, AverageRe)

\* the substitutions of simplify_tests.py, in the order of the script
SimplifyTests(c) == SimplifyAverage(SimplifyTrades(SimplifyGini(c)))

(***************************************************************************)
(* fix_remaining.py                                                        *)
(***************************************************************************)

TestAttr ==
    << "#", "[", "test", "]" >>

InactiveHead ==
    << "fn", " ", "test_engine_getter_with_inactive_entities", "(", ")", " ", "{" >>

InactiveAccess ==
    << "engine", ".", "entities", "[", "0", "]", ".", "active" >>

\* #\[test\]\s+fn test_engine_getter_with_inactive_entities\(\) \{[^}]*
\*   engine\.entities\[0\]\.active[^}]*\}   ->  ''      (DOTALL: no "." in it)
InactiveRe ==
    [ pat    |-> << Lits(TestAttr), Plus("s"), Lits(InactiveHead), Star("not_rbrace"),
                    Lits(InactiveAccess), Star("not_rbrace"), Lits(<< "}" >>) >>,
      groups |-> << >>,
      repl   |-> << >> ]

FixRemainingInactive(c) == Sub(c, InactiveRe)

FlatGini ==
    << "result", ".", "gini_coefficient" >>

NestedGini ==
    << "result", ".", "inequality_metrics", ".", "gini_coefficient" >>

FlatAvgPrice ==
    << "result", ".", "average_transaction_price" >>

NestedAvgPrice ==
    << "result", ".", "trade_volume_statistics", ".", "average_price" >>

FixRemainingGini(c) == Replace(c, FlatGini, NestedGini)

FixRemainingAvgPrice(c) == Replace(c, FlatAvgPrice, NestedAvgPrice)

\* \n\s*,\s*,\s*\n  ->  \n
CommaLineRe ==
    [ pat    |-> << Lits(<< "\n" >>), Star("s"), Lits(<< "," >>), Star("s"),
                    Lits(<< "," >>), Star("s"), Lits(<< "\n" >>) >>,
      groups |-> << >>,
      repl   |-> << Lits(<< "\n" >>) >> ]

FixRemainingCommaLines(c) == Sub(c, CommaLineRe)

\* the substitutions of fix_remaining.py, in the order of the script
FixRemaining(c) ==
    FixRemainingCommaLines(FixRemainingAvgPrice(FixRemainingGini(FixRemainingInactive(c))))

(***************************************************************************)
(* fix_tests.py                                                            *)
(***************************************************************************)

\* the rename table: << legacy name, replacement >>, in the order of the script
ConfigRenames ==
    << << << "config", ".", "num_persons" >>,       << "config", ".", "entity_count" >> >>,
       << << "config", ".", "enable_trade_fees" >>, << "config", ".", "transaction_fee" >> >>,
       << << "config", ".", "trade_fee_rate" >>,    << "config", ".", "transaction_fee" >> >>,
       << << "config", ".", "enable_income_tax" >>, << "config", ".", "tax_rate" >> >>,
       << << "config", ".", "income_tax_rate" >>,   << "config", ".", "tax_rate" >> >>,
       << << "config", ".", "price_floor" >>,       << "config", ".", "min_skill_price" >> >>,
       << << "config", ".", "price_ceiling" >>,     << "config", ".", "max_skill_price" >> >> >>

TxPurchase == << "TransactionType", ":", ":", "Purchase" >>

TxSale == << "TransactionType", ":", ":", "Sale" >>

TxProduction == << "TransactionType", ":", ":", "Production" >>

TxBuy == << "TransactionType", ":", ":", "Buy" >>

TxSell == << "TransactionType", ":", ":", "Sell" >>

\* TransactionType::Production renamed to a variant that is itself legacy
ProductionTargetLegacy == TxPurchase

\* what TransactionType::Production is renamed to
ProductionTarget == TxBuy

EnumRenames ==
    << << TxPurchase, TxBuy >>, << TxSale, TxSell >>, << TxProduction, ProductionTarget >> >>

\* a list of content.replace calls applied one after the other
RECURSIVE ReplaceAll(_, _, _)
ReplaceAll(c, table, k) ==
    IF k > Len(table) THEN c
    ELSE ReplaceAll(Replace(c, table[k][1], table[k][2]), table, k + 1)

FixTestsRenames(c) == ReplaceAll(ReplaceAll(c, ConfigRenames, 1), EnumRenames, 1)

RecHead ==
    << "person", ".", "record_transaction", "(" >>

\* person\.record_transaction\((\d+), (TransactionType::\w+), &(\w+\.id), ([\d.]+), ([\d.]+)\)
\*   ->  person.record_transaction(\1, \3.id.clone(), \2, \4, None)
RecordTransactionRe ==
    [ pat    |-> << Lits(RecHead), Plus("d"), Lits(<< ",", " " >>),
                    Lits(<< "TransactionType", ":", ":" >>), Plus("w"),
                    Lits(<< ",", " ", "&" >>),
                    Plus("w"), Lits(<< ".", "id" >>),
                    Lits(<< ",", " " >>), Plus("dot_d"),
                    Lits(<< ",", " " >>), Plus("dot_d"), Lits(<< ")" >>) >>,
      groups |-> << << 2, 2 >>, << 4, 5 >>, << 7, 8 >>, << 10, 10 >>, << 12, 12 >> >>,
      repl   |-> << Lits(RecHead), Grp(1), Lits(<< ",", " " >>),
                    Grp(3), Lits(<< ".", "id", ".", "clone", "(", ")", ",", " " >>),
                    Grp(2), Lits(<< ",", " " >>),
                    Grp(4), Lits(<< ",", " ", "None", ")" >>) >> ]

FixTestsRecordTransaction(c) == Sub(c, RecordTransactionRe)

FieldComment ==
    << "/", "/", " ", "Field", " ", "removed" >>

PurchasesHead ==
    << "assert_eq", "!", "(", "person", ".", "total_purchases_value", ",", " " >>

SalesHead ==
    << "assert_eq", "!", "(", "person", ".", "total_sales_value", ",", " " >>

\* assert_eq!\(person\.<field>, [\d.]+\);  ->  // Field removed
FieldRe(head) ==
    [ pat    |-> << Lits(head), Plus("dot_d"), Lits(<< ")", ";" >>) >>,
      groups |-> << >>,
      repl   |-> << Lits(FieldComment) >> ]

FixTestsFields(c) == Sub(Sub(c, FieldRe(PurchasesHead)), FieldRe(SalesHead))

CheckpointComment ==
    << "/", "/", " ", "Checkpoint", " ", "test", " ", "removed" >>

SaveRestoreHead ==
    << "fn", " ", "test_engine_checkpoint_save_and_restore", "(", ")", " ", "{" >>

InvalidPathHead ==
    << "fn", " ", "test_engine_checkpoint_with_invalid_path", "(", ")", " ", "{" >>

ProductionHead ==
    << "fn", " ", "test_engine_checkpoint_with_production_enabled", "(", ")", " ", "{" >>

\* [^}]*\}  repeated n times
RECURSIVE Closers(_)
Closers(n) ==
    IF n = 0 THEN << >> ELSE << Star("not_rbrace"), Lits(<< "}" >>) >> \o Closers(n - 1)

\* #\[test\]\s+fn <name>\(\) \{ ([^}]*\}){n}  ->  // Checkpoint test removed
CheckpointRe(head, n) ==
    [ pat    |-> << Lits(TestAttr), Plus("s"), Lits(head) >> \o Closers(n),
      groups |-> << >>,
      repl   |-> << Lits(CheckpointComment) >> ]

FixTestsSaveRestore(c) == Sub(c, CheckpointRe(SaveRestoreHead, 3))

FixTestsInvalidPath(c) == Sub(c, CheckpointRe(InvalidPathHead, 1))

FixTestsProduction(c) == Sub(c, CheckpointRe(ProductionHead, 3))

\* the substitutions of fix_tests.py, in the order of the script
FixTests(c) ==
    FixTestsProduction(FixTestsInvalidPath(FixTestsSaveRestore(
        FixTestsFields(FixTestsRecordTransaction(FixTestsRenames(c))))))

\* the text a script computes from the text it read
Scripts == { "fix_tests", "fix_remaining", "fix_final", "simplify_tests" }

Apply(script, c) ==
    CASE script = "fix_tests"      -> FixTests(c)
      [] script = "fix_remaining"  -> FixRemaining(c)
      [] script = "fix_final"      -> FixFinal(c)
      [] script = "simplify_tests" -> SimplifyTests(c)

(***************************************************************************)
(* The test file the scripts rewrite.  Its text is built from pieces of    *)
(* Rust test code; the pieces are grouped by the construct they exercise,  *)
(* and a file is the concatenation of at most MaxPieces pieces of one      *)
(* group.                                                                  *)
(***************************************************************************)

RecTxStmt ==
    << "person", ".", "record_transaction", "(", "1", ",", " ", "TransactionType", ":", ":",
      "Purchase", ",", " ", "&", "skill", ".", "id", ",", " ", "10", ".", "0", ",", " ",
      "5", ".", "0", ")", ";" >>

ConfigStmt ==
    << "check", "(", "config", ".", "num_persons", ",", " ", "config", ".",
      "enable_trade_fees", ",", " ", "config", ".", "trade_fee_rate", ",", " ", "config",
      ".", "enable_income_tax", ",", " ", "config", ".", "income_tax_rate", ",", " ",
      "config", ".", "price_floor", ",", " ", "config", ".", "price_ceiling", ")", ";" >>

EnumStmt ==
    << "let", " ", "kinds", " ", "=", " ", "[", "TransactionType", ":", ":", "Sale", ",",
      " ", "TransactionType", ":", ":", "Production", "]", ";" >>

FieldStmt ==
    << "assert_eq", "!", "(", "person", ".", "total_purchases_value", ",", " ", "10", ".",
      "0", ")", ";" >>

TxPiece ==
    << "TransactionType", ":", ":" >>

PurchasePiece ==
    << "Purchase" >>

TestSaveRestore ==
    << "#", "[", "test", "]", "\n", "fn", " ", "test_engine_checkpoint_save_and_restore",
      "(", ")", " ", "{", " ", "if", " ", "a", " ", "{", " ", "b", "(", ")", ";", " ", "}",
      " ", "if", " ", "c", " ", "{", " ", "d", "(", ")", ";", " ", "}", " ", "}", "\n" >>

TestSaveRestoreFlat ==
    << "#", "[", "test", "]", "\n", "fn", " ", "test_engine_checkpoint_save_and_restore",
      "(", ")", " ", "{", " ", "a", "(", ")", ";", " ", "}", "\n" >>

TestInvalidPath ==
    << "#", "[", "test", "]", "\n", "fn", " ", "test_engine_checkpoint_with_invalid_path",
      "(", ")", " ", "{", " ", "if", " ", "a", " ", "{", " ", "b", "(", ")", ";", " ", "}",
      " ", "}", "\n" >>

TestProduction ==
    << "#", "[", "test", "]", "\n", "fn", " ",
      "test_engine_checkpoint_with_production_enabled", "(", ")", " ", "{", " ", "for", " ",
      "s", " ", "in", " ", "0", ".", ".", "5", " ", "{", " ", "if", " ", "a", " ", "{", " ",
      "b", "(", ")", ";", " ", "}", " ", "}", " ", "}", "\n" >>

TestOther ==
    << "#", "[", "test", "]", "\n", "fn", " ", "test_other", "(", ")", " ", "{", " ", "ok",
      "(", ")", ";", " ", "}", "\n" >>

TestInactive ==
    << "#", "[", "test", "]", "\n", "fn", " ", "test_engine_getter_with_inactive_entities",
      "(", ")", " ", "{", " ", "engine", ".", "entities", "[", "0", "]", ".", "active", " ",
      "=", " ", "false", ";", " ", "}", "\n" >>

TestInactiveNested ==
    << "#", "[", "test", "]", "\n", "fn", " ", "test_engine_getter_with_inactive_entities",
      "(", ")", " ", "{", " ", "if", " ", "a", " ", "{", " ", "engine", ".", "entities",
      "[", "0", "]", ".", "active", " ", "=", " ", "false", ";", " ", "}", " ", "}", "\n" >>

GiniFlatStmt ==
    << "assert", "!", "(", "result", ".", "gini_coefficient", " ", ">", "=", " ", "0", ".",
      "0", ")", ";" >>

AvgPriceStmt ==
    << "let", " ", "p", " ", "=", " ", "result", ".", "average_transaction_price", ";" >>

CommaLine ==
    << ",", " ", ",", "\n" >>

CommaLineAfterBreak ==
    << "\n", ",", " ", ",", "\n" >>

SingleCommaLine ==
    << ",", "\n" >>

CodeLine ==
    << "ok", "(", ")", ";", "\n" >>

UseStmt ==
    << "use", " ", "crate", ":", ":", "person", ":", ":", "{", "Person", ",", " ",
      "TransactionType", "}", ";" >>

PersonNewStmt ==
    << "let", " ", "mut", " ", "person", " ", "=", " ", "Person", ":", ":", "new", "(", "1",
      ",", " ", "100", ".", "0", ",", " ", "skill1", ",", " ", "vec", "!", "[", "skill2",
      ".", "id", ".", "clone", "(", ")", "]", ")", ";" >>

SaveStmt ==
    << "result", ".", "save_to_file", "(", "path", ")", ".", "unwrap", "(", ")", ";" >>

SaveNestedStmt ==
    << "result", ".", "save_to_file", "(", "path", ".", "to_str", "(", ")", ".", "unwrap",
      "(", ")", ")", ".", "unwrap", "(", ")", ";" >>

TradesGtStmt ==
    << "assert", "!", "(", "result", ".", "total_trades", " ", ">", " ", "0", ")", ";" >>

TradesGeStmt ==
    << "assert", "!", "(", "result", ".", "total_trades", " ", ">", "=", " ", "0", ")", ";" >>

TradesEqStmt ==
    << "assert_eq", "!", "(", "result", ".", "total_trades", ",", " ", "0", ")", ";" >>

GiniLeStmt ==
    << "assert", "!", "(", "result", ".", "money_statistics", ".", "gini_coefficient", " ",
      "<", "=", " ", "1", ".", "0", ")", ";" >>

AverageStmt ==
    << "assert", "!", "(", "result", ".", "money_statistics", ".", "average", " ", ">", " ",
      "0", ".", "0", ")", ";" >>

Corpus ==
    << << ConfigStmt, EnumStmt, TxPiece, PurchasePiece >>,
       << RecTxStmt, FieldStmt, EnumStmt >>,
       << TestSaveRestore, TestSaveRestoreFlat, TestInvalidPath, TestOther >>,
       << TestProduction, TestInvalidPath, TestOther >>,
       << TestInactive, TestInactiveNested, TestOther >>,
       << GiniFlatStmt, AvgPriceStmt, GiniLeStmt >>,
       << CommaLine, CommaLineAfterBreak, SingleCommaLine, CodeLine >>,
       << UseStmt, PersonNewStmt, SaveStmt, SaveNestedStmt >>,
       << TradesGtStmt, TradesGeStmt, TradesEqStmt >>,
       << TradesGtStmt, GiniLeStmt, AverageStmt >> >>

\* the longest file, in pieces
MaxPieces == 2

\* the files of a concurrent run, in pieces
MaxConcPieces == 1

\* how many script runs a behaviour has
MaxRuns == 2

RECURSIVE Concat(_, _)
Concat(pieces, k) ==
    IF k > Len(pieces) THEN << >> ELSE pieces[k] \o Concat(pieces, k + 1)

\* the files of at most n pieces
Files(n) ==
    { Concat(p, 1) :
        p \in UNION { [1..m -> { Corpus[g][x] : x \in 1..Len(Corpus[g]) }] :
                        g \in 1..Len(Corpus), m \in 0..n } }

(***************************************************************************)
(* State                                                                   *)
(***************************************************************************)

VARIABLES
    file,      \* the text of src/tests/final_push_tests.rs
    orig,      \* the text of the file before any script ran
    prev,      \* the text of the file before the last write
    hist,      \* the scripts that wrote the file, in the order of their writes
    pc,        \* pc[s]: where the process running script s is
    content,   \* content[s]: the variable "content" of the process running s
    readAfter  \* readAfter[s]: the scripts that had finished when s read the file

vars == << file, orig, prev, hist, pc, content, readAfter >>

InitWith(f, running) ==
    /\ file = f
    /\ orig = f
    /\ prev = f
    /\ hist = << >>
    /\ pc = [s \in Scripts |-> IF s \in running THEN "start" ELSE "off"]
    /\ content = [s \in Scripts |-> << >>]
    /\ readAfter = [s \in Scripts |-> {}]

(***************************************************************************)
(* One script at a time: a run is open-read-close, the substitutions,      *)
(* open-truncate-write-close, with nothing else touching the file.         *)
(***************************************************************************)

Init == \E f \in Files(MaxPieces) : InitWith(f, {})

RunScript(s) ==
    /\ Len(hist) < MaxRuns
    /\ file' = Apply(s, file)
    /\ prev' = file
    /\ hist' = Append(hist, s)
    /\ UNCHANGED << orig, pc, content, readAfter >>

RunFixTests == RunScript("fix_tests")

RunFixRemaining == RunScript("fix_remaining")

RunFixFinal == RunScript("fix_final")

RunSimplifyTests == RunScript("simplify_tests")

Next == RunFixTests \/ RunFixRemaining \/ RunFixFinal \/ RunSimplifyTests

Spec == Init /\ [][Next]_vars

(***************************************************************************)
(* Two scripts started together: each process takes the steps of its       *)
(* script one at a time, and the steps of the two interleave.              *)
(***************************************************************************)

ConcInit ==
    \E f \in Files(MaxConcPieces) :
        \E a, b \in Scripts : a # b /\ InitWith(f, {a, b})

\* with open(path, 'r') as f: content = f.read()
Read(s) ==
    /\ pc[s] = "start"
    /\ content' = [content EXCEPT ![s] = file]
    /\ readAfter' = [readAfter EXCEPT ![s] = { t \in Scripts : pc[t] = "done" }]
    /\ pc' = [pc EXCEPT ![s] = "read"]
    /\ UNCHANGED << file, orig, prev, hist >>

\* the replace and re.sub calls on the local variable
Substitute(s) ==
    /\ pc[s] = "read"
    /\ content' = [content EXCEPT ![s] = Apply(s, content[s])]
    /\ pc' = [pc EXCEPT ![s] = "substituted"]
    /\ UNCHANGED << file, orig, prev, hist, readAfter >>

\* open(path, 'w'): the file is truncated when it is opened
OpenForWrite(s) ==
    /\ pc[s] = "substituted"
    /\ file' = << >>
    /\ pc' = [pc EXCEPT ![s] = "opened"]
    /\ UNCHANGED << orig, prev, hist, content, readAfter >>

\* the write of a file opened in append mode
WriteAppended(s) ==
    /\ pc[s] = "opened"
    /\ file' = file \o content[s]
    /\ prev' = file
    /\ hist' = Append(hist, s)
    /\ pc' = [pc EXCEPT ![s] = "done"]
    /\ UNCHANGED << orig, content, readAfter >>

\* f.write(content) and the close at the end of the with block
Write(s) ==
    /\ pc[s] = "opened"
    /\ file' = content[s]
    /\ prev' = file
    /\ hist' = Append(hist, s)
    /\ pc' = [pc EXCEPT ![s] = "done"]
    /\ UNCHANGED << orig, content, readAfter >>

ConcNext ==
    \E s \in Scripts : Read(s) \/ Substitute(s) \/ OpenForWrite(s) \/ Write(s)

ConcSpec == ConcInit /\ [][ConcNext]_vars

(***************************************************************************)
(* Properties                                                              *)
(***************************************************************************)

\* the script that wrote the file last
LastRun == hist[Len(hist)]

\* a script has written the file, and script s was the last to do so
JustRan(s) == hist # << >> /\ LastRun = s

\* the last two writes were by a and then by b
RanInOrder(a, b) ==
    Len(hist) >= 2 /\ hist[Len(hist) - 1] = a /\ hist[Len(hist)] = b

\* the number of indices at which p occurs in s
Count(s, p) == Cardinality({ i \in 1..Len(s) : OccursAt(s, i, p) })

\* opening braces minus closing braces
NetBraces(s) == Count(s, << "{" >>) - Count(s, << "}" >>)

RecTxCall ==
    << "person", ".", "record_transaction", "(", "1", ",", " ", "TransactionType", ":", ":",
      "Purchase", ",", " ", "&", "skill", ".", "id", ",", " ", "10", ".", "0", ",", " ",
      "5", ".", "0", ")" >>

RecTxExpected ==
    << "person", ".", "record_transaction", "(", "1", ",", " ", "skill", ".", "id", ".",
      "clone", "(", ")", ",", " ", "TransactionType", ":", ":", "Buy", ",", " ", "10", ".",
      "0", ",", " ", "None", ")" >>

\* C1: fix_tests.py turns person.record_transaction(1, TransactionType::Purchase,
\* &skill.id, 10.0, 5.0) into person.record_transaction(1, skill.id.clone(),
\* TransactionType::Buy, 10.0, None): the skill_id argument has a single ".id".
C1_RecordTransactionArgumentOrder ==
    JustRan("fix_tests") => Count(file, RecTxExpected) >= Count(prev, RecTxCall)

SaveFixed ==
    << "result", ".", "save_to_file", "(", "path", ",", " ", "false", ")", ".", "unwrap",
      "(", ")", ";" >>

SaveNestedFixed ==
    << "result", ".", "save_to_file", "(", "path", ".", "to_str", "(", ")", ".", "unwrap",
      "(", ")", ",", " ", "false", ")", ".", "unwrap", "(", ")", ";" >>

\* C2: after fix_final.py every result.save_to_file(<path>).unwrap(); has become
\* result.save_to_file(<path>, false).unwrap(); with the path kept, for a plain
\* identifier and for a path expression with parenthesised sub-calls alike.
C2_SaveToFileGetsCompressArgument ==
    JustRan("fix_final") =>
        /\ Count(file, SaveFixed) >= Count(prev, SaveStmt)
        /\ Count(file, SaveNestedFixed) >= Count(prev, SaveNestedStmt)
        /\ ~Occurs(file, SaveStmt)
        /\ ~Occurs(file, SaveNestedStmt)

FlatTotalTrades == << "result", ".", "total_trades" >>

\* C3: after fix_final.py no flat access result.total_trades remains, in whatever
\* expression it occurred.
C3_NoFlatTotalTrades == JustRan("fix_final") => ~Occurs(file, FlatTotalTrades)

\* C4: every assert!(result.money_statistics.gini_coefficient <= 1.0); of the file
\* is still there after simplify_tests.py.
C4_GiniUpperBoundKept ==
    JustRan("simplify_tests") => Count(file, GiniLeStmt) = Count(prev, GiniLeStmt)

\* the legacy names of the rename table of fix_tests.py
LegacyNames ==
    { << "config", ".", "num_persons" >>, << "config", ".", "enable_trade_fees" >>,
      << "config", ".", "trade_fee_rate" >>, << "config", ".", "enable_income_tax" >>,
      << "config", ".", "income_tax_rate" >>, << "config", ".", "price_floor" >>,
      << "config", ".", "price_ceiling" >>,
      << "TransactionType", ":", ":", "Purchase" >>,
      << "TransactionType", ":", ":", "Sale" >>,
      << "TransactionType", ":", ":", "Production" >> }

\* the stable name of each legacy name
StableName(l) ==
    CASE l[3] = "num_persons"       -> << "config", ".", "entity_count" >>
      [] l[3] = "enable_trade_fees" -> << "config", ".", "transaction_fee" >>
      [] l[3] = "trade_fee_rate"    -> << "config", ".", "transaction_fee" >>
      [] l[3] = "enable_income_tax" -> << "config", ".", "tax_rate" >>
      [] l[3] = "income_tax_rate"   -> << "config", ".", "tax_rate" >>
      [] l[3] = "price_floor"       -> << "config", ".", "min_skill_price" >>
      [] l[3] = "price_ceiling"     -> << "config", ".", "max_skill_price" >>
      [] l[4] = "Sale"              -> << "TransactionType", ":", ":", "Sell" >>
      [] OTHER                      -> << "TransactionType", ":", ":", "Buy" >>

StableNames == { StableName(l) : l \in LegacyNames }

RECURSIVE SumCount(_, _)
SumCount(s, names) ==
    IF names = {} THEN 0
    ELSE LET n == CHOOSE n \in names : TRUE
         IN  Count(s, n) + SumCount(s, names \ {n})

\* C5: after fix_tests.py the file holds none of the legacy names of the rename
\* table; where no test function is removed, each occurrence of a legacy name has
\* become an occurrence of its stable name.
C5_NoLegacyNames ==
    JustRan("fix_tests") =>
        /\ \A l \in LegacyNames : ~Occurs(file, l)
        /\ ~Occurs(prev, TestAttr) =>
              \A t \in StableNames :
                  Count(file, t) =
                      Count(prev, t)
                      + SumCount(prev, { l \in LegacyNames : StableName(l) = t })

\* C5 happens: fix_tests.py ran on a file with legacy config names and a legacy
\* enum variant, and the stable names are in the file.
C5_Witness ==
    /\ JustRan("fix_tests")
    /\ Occurs(prev, << "config", ".", "num_persons" >>)
    /\ Occurs(prev, << "TransactionType", ":", ":", "Production" >>)
    /\ Occurs(file, << "config", ".", "entity_count" >>)
    /\ Occurs(file, << "TransactionType", ":", ":", "Buy" >>)

\* the names of the test functions each script removes
RemovedTests(s) ==
    IF s = "fix_tests"
    THEN { << "test_engine_checkpoint_save_and_restore" >>,
           << "test_engine_checkpoint_with_invalid_path" >>,
           << "test_engine_checkpoint_with_production_enabled" >> }
    ELSE { << "test_engine_getter_with_inactive_entities" >> }

\* C6: a test-removal substitution removes the named test function up to the brace
\* that closes it, whatever the nesting of its body, and leaves every other test
\* as it was: the named tests are gone, test_other is still there as often as
\* before, and the braces of the file still balance as they did.
C6_RemovesExactlyTheNamedTest ==
    (hist # << >> /\ LastRun \in { "fix_tests", "fix_remaining" }) =>
        /\ \A t \in RemovedTests(LastRun) : ~Occurs(file, t)
        /\ Count(file, TestOther) = Count(prev, TestOther)
        /\ NetBraces(file) = NetBraces(prev)

\* line breaks and commas of a text
LineBreaks(s) == Count(s, << "\n" >>)

Commas(s) == Count(s, << "," >>)

\* C7: after fix_remaining.py no line of two commas and optional whitespace is
\* left, also when several were adjacent, and the substitution removed only such
\* lines: one line break went for every two commas that went.
C7_NoCommaLineLeft ==
    JustRan("fix_remaining") =>
        /\ ~Matches(file, CommaLineRe.pat)
        /\ 2 * (LineBreaks(prev) - LineBreaks(file)) = Commas(prev) - Commas(file)

\* an assertion that the trade count is strictly positive, flat or nested
HasPositiveTradesAssert(s) ==
    \/ Occurs(s, TradesGtStmt)
    \/ Occurs(s, << "assert", "!", "(" >> \o NestedTradesGt \o << ")", ";" >>)

\* C8 as stated: once fix_final.py and simplify_tests.py have both run, in either
\* order, no assertion that the trade count is strictly positive is left.
C8_NoPositiveTradesAssertEitherOrder ==
    (RanInOrder("fix_final", "simplify_tests") \/ RanInOrder("simplify_tests", "fix_final"))
        => ~HasPositiveTradesAssert(file)

\* C8 amended: once fix_final.py has run and simplify_tests.py has run after it,
\* no assertion that the trade count is strictly positive is left.
C8_NoPositiveTradesAssertFinalThenSimplify ==
    RanInOrder("fix_final", "simplify_tests") => ~HasPositiveTradesAssert(file)

\* C8 happens: the file had assert!(result.total_trades > 0); and fix_final.py,
\* then simplify_tests.py ran on it.
C8_Witness ==
    /\ hist = << "fix_final", "simplify_tests" >>
    /\ Occurs(orig, TradesGtStmt)
    /\ Occurs(file, TradesComment)

\* C9: every script is idempotent: a second run on its own output leaves the file
\* as it is.
C9_ScriptsIdempotent ==
    \A s \in Scripts : RanInOrder(s, s) => file = prev

\* the two scripts of a concurrent run have both written the file
BothDone == Cardinality({ s \in Scripts : pc[s] = "done" }) = 2

====
